---- MODULE Spec2Model ----
(***************************************************************************)
(* Model of app.py, the "Alix Keyword Tracer" Streamlit script.            *)
(*                                                                         *)
(* A Python str is a sequence of one-character strings, so that lower(),   *)
(* strip(), split(), re.escape() and the regular-expression search are     *)
(* computed character by character as the interpreter computes them.       *)
(* Python's None for an optional str is the empty sequence None; a found   *)
(* column is the one-element sequence <<name>>.                            *)
(***************************************************************************)
EXTENDS Naturals, Integers, Sequences, FiniteSets, TLC

\* ------------------------------------------------------------------ bounds
MaxCols == 3
MaxCands == 2
MaxRows == 2
MaxKeywords == 2
MaxFiles == 2
MaxTables == 3

\* ----------------------------------------------------------------- strings
Range(s) == {s[i] : i \in 1..Len(s)}

IsInjective(s) == \A i, j \in 1..Len(s) : s[i] = s[j] => i = j

\* Sequences over S of length lo..hi.
SeqsOf(S, lo, hi) == UNION {[1..n -> S] : n \in lo..hi}

Uppers == <<"A","B","C","D","E","F","G","H","I","J","K","L","M",
            "N","O","P","Q","R","S","T","U","V","W","X","Y","Z">>

Lowers == <<"a","b","c","d","e","f","g","h","i","j","k","l","m",
            "n","o","p","q","r","s","t","u","v","w","x","y","z">>

\* The lower-case letter of each upper-case letter.
LowerOf == [c \in Range(Uppers) |-> Lowers[CHOOSE i \in 1..Len(Uppers) : Uppers[i] = c]]

\* str.lower() on one character.
char_lower(c) == IF c \in DOMAIN LowerOf THEN LowerOf[c] ELSE c

\* str.lower().
str_lower(s) == [i \in 1..Len(s) |-> char_lower(s[i])]

None == << >>

\* list.index(x): the 0-based position of the first element equal to x.
list_index(xs, x) == (CHOOSE i \in 1..Len(xs) : xs[i] = x /\ \A j \in 1..(i-1) : xs[j] # x) - 1

\* --------------------------------------------------------- detect_column
RECURSIVE detect_from(_, _, _, _)
\* The for loop of detect_column from candidate number n on.
detect_from(columns_, cols_lower, cands, n) ==
    IF n > Len(cands) THEN None
    ELSE IF cands[n] \in Range(cols_lower)
         THEN <<columns_[list_index(cols_lower, cands[n]) + 1]>>
         ELSE detect_from(columns_, cols_lower, cands, n + 1)

detect_column(columns_, cands) ==
    LET cols_lower == [i \in 1..Len(columns_) |-> str_lower(columns_[i])]
    IN detect_from(columns_, cols_lower, cands, 1)

\* ------------------------------------------------------- str.strip / split
\* The whitespace str.strip() removes (the members that occur in the model).
Whitespace == {" "}

RECURSIVE lstrip(_)
lstrip(s) == IF s # << >> /\ s[1] \in Whitespace THEN lstrip(Tail(s)) ELSE s

RECURSIVE rstrip(_)
rstrip(s) ==
    IF s # << >> /\ s[Len(s)] \in Whitespace THEN rstrip(SubSeq(s, 1, Len(s) - 1)) ELSE s

\* str.strip().
strip(s) == rstrip(lstrip(s))

RECURSIVE split(_, _)
\* str.split(sep) for a one-character separator: always at least one piece.
split(s, sep) ==
    IF \E i \in 1..Len(s) : s[i] = sep
    THEN LET i == CHOOSE i \in 1..Len(s) : s[i] = sep /\ \A j \in 1..(i-1) : s[j] # sep
         IN <<SubSeq(s, 1, i - 1)>> \o split(SubSeq(s, i + 1, Len(s)), sep)
    ELSE <<s>>

RECURSIVE join(_, _)
\* sep.join(parts).
join(sep, parts) ==
    IF parts = << >> THEN << >>
    ELSE IF Len(parts) = 1 THEN parts[1]
    ELSE parts[1] \o sep \o join(sep, Tail(parts))

RECURSIVE stripped_nonempty(_)
\* [k.strip() for k in pieces if k.strip()]
stripped_nonempty(pieces) ==
    IF pieces = << >> THEN << >>
    ELSE (IF strip(pieces[1]) # << >> THEN <<strip(pieces[1])>> ELSE << >>)
         \o stripped_nonempty(Tail(pieces))

\* keywords = [k.strip() for k in keyword_text.split(",") if k.strip()]
parse_keywords(text) == stripped_nonempty(split(text, ","))

\* --------------------------------------------------------------------- re
\* The characters re.escape() puts a backslash before.
ReSpecial == {"(", ")", "[", "]", "{", "}", "?", "*", "+", "-", "|", "^", "$",
              "\\", ".", "&", "~", "#", " "}

\* re.escape() left out: the keyword is used as the pattern as it stands.
re_escape_none(k) == k

RECURSIVE re_escape(_)
re_escape(k) ==
    IF k = << >> THEN << >>
    ELSE (IF k[1] \in ReSpecial THEN <<"\\", k[1]>> ELSE <<k[1]>>) \o re_escape(Tail(k))

RECURSIVE re_tokens(_)
\* The pattern as atoms: a literal character (plain or backslash-escaped), the
\* dot, or the alternation bar. These are the constructs a "|".join of keyword
\* characters can form.
re_tokens(p) ==
    IF p = << >> THEN << >>
    ELSE IF p[1] = "\\" /\ Len(p) >= 2
         THEN <<[t |-> "lit", c |-> p[2]]>> \o re_tokens(SubSeq(p, 3, Len(p)))
    ELSE IF p[1] = "." THEN <<[t |-> "any", c |-> "."]>> \o re_tokens(Tail(p))
    ELSE IF p[1] = "|" THEN <<[t |-> "bar", c |-> "|"]>> \o re_tokens(Tail(p))
    ELSE <<[t |-> "lit", c |-> p[1]]>> \o re_tokens(Tail(p))

RECURSIVE re_branches(_)
\* The alternatives of the pattern: the atoms between the bars.
re_branches(toks) ==
    IF \E i \in 1..Len(toks) : toks[i].t = "bar"
    THEN LET i == CHOOSE i \in 1..Len(toks) :
                      toks[i].t = "bar" /\ \A j \in 1..(i-1) : toks[j].t # "bar"
         IN <<SubSeq(toks, 1, i - 1)>> \o re_branches(SubSeq(toks, i + 1, Len(toks)))
    ELSE <<toks>>

\* One atom against one character under re.IGNORECASE.
atom_match(a, ch) ==
    IF a.t = "any" THEN ch # "\n" ELSE char_lower(a.c) = char_lower(ch)

\* re.search(pattern, text, flags=re.IGNORECASE) is not None
re_search(pattern, text) ==
    LET branches == re_branches(re_tokens(pattern))
    IN \E b \in 1..Len(branches) :
         \E i \in 0..(Len(text) - Len(branches[b])) :
           \A j \in 1..Len(branches[b]) : atom_match(branches[b][j], text[i + j])

\* ----------------------------------------------------------------- pandas
\* A cell is a str or the missing value NaN.
NaN == [kind |-> "nan", text |-> << >>]

Str(t) == [kind |-> "str", text |-> t]

\* str(cell): str(float("nan")) is "nan".
py_str(cell) == IF cell.kind = "nan" THEN <<"n", "a", "n">> ELSE cell.text

\* Series.astype(str): every element, the missing ones too, becomes its str().
astype_str(series) == [i \in 1..Len(series) |-> Str(py_str(series[i]))]

\* Series.str.contains(pat, case=False, na=False)
str_contains(series, pat) ==
    [i \in 1..Len(series) |->
        IF series[i].kind = "nan" THEN FALSE ELSE re_search(pat, series[i].text)]

\* A DataFrame: its column names and its rows, each row the cells in column order.
DataFrame(cols, rows) == [columns |-> cols, rows |-> rows]

\* df[col]
Column(df, col) ==
    [r \in 1..Len(df.rows) |-> df.rows[r][list_index(df.columns, col) + 1]]

RECURSIVE union_columns(_, _)
\* The columns of the frames from acc on, each at its first appearance.
union_columns(frames, acc) ==
    IF frames = << >> THEN acc
    ELSE LET new == SelectSeq(frames[1].columns, LAMBDA c : c \notin Range(acc))
         IN union_columns(Tail(frames), acc \o new)

\* One row of df laid out on the columns cols: NaN where df has no such column.
reindex_row(df, row, cols) ==
    [j \in 1..Len(cols) |->
        IF cols[j] \in Range(df.columns)
        THEN row[list_index(df.columns, cols[j]) + 1]
        ELSE NaN]

RECURSIVE concat_rows(_, _)
concat_rows(frames, cols) ==
    IF frames = << >> THEN << >>
    ELSE [r \in 1..Len(frames[1].rows) |-> reindex_row(frames[1], frames[1].rows[r], cols)]
         \o concat_rows(Tail(frames), cols)

\* pd.concat(dfs, ignore_index=True, join="inner"): only the columns every
\* frame has.
pd_concat_inner(frames) ==
    LET cols == SelectSeq(union_columns(frames, << >>),
                          LAMBDA c : \A n \in 1..Len(frames) : c \in Range(frames[n].columns))
    IN DataFrame(cols, concat_rows(frames, cols))

\* pd.concat(dfs, ignore_index=True)
pd_concat(frames) ==
    LET cols == union_columns(frames, << >>)
    IN DataFrame(cols, concat_rows(frames, cols))

RECURSIVE rows_where(_, _, _)
\* The rows from number n on whose mask value is true, in order.
rows_where(rows, mask, n) ==
    IF n > Len(rows) THEN << >>
    ELSE (IF mask[n] THEN <<rows[n]>> ELSE << >>) \o rows_where(rows, mask, n + 1)

\* df.loc[mask, cols] with the columns left in the table's order.
df_loc_table_order(df, mask, cols) ==
    LET ordered == SelectSeq(df.columns, LAMBDA c : c \in Range(cols))
        kept == rows_where(df.rows, mask, 1)
    IN DataFrame(ordered,
         [r \in 1..Len(kept) |->
            [j \in 1..Len(ordered) |-> kept[r][list_index(df.columns, ordered[j]) + 1]]])

\* df.loc[mask, cols].copy()
df_loc(df, mask, cols) ==
    DataFrame(cols,
        LET kept == rows_where(df.rows, mask, 1)
        IN [r \in 1..Len(kept) |->
              [j \in 1..Len(cols) |-> kept[r][list_index(df.columns, cols[j]) + 1]]])

\* df.head(n)
df_head(df, n) ==
    DataFrame(df.columns, SubSeq(df.rows, 1, IF Len(df.rows) < n THEN Len(df.rows) ELSE n))

\* --------------------------------------------------------- the mask (131-139)
ANY == "Any keyword (OR)"
ALL == "All keywords (AND)"

\* The escaped keywords joined with "" in place of "|".
any_pattern_concat(kws) == join(<< >>, [i \in 1..Len(kws) |-> re_escape(kws[i])])

\* pattern = "|".join(re.escape(k) for k in keywords)
any_pattern(kws) == join(<<"|">>, [i \in 1..Len(kws) |-> re_escape(kws[i])])

RECURSIVE all_loop(_, _, _, _)
\* for k in keywords: mask &= descriptions.str.contains(re.escape(k), ...)
all_loop(mask_, descriptions_, kws, n) ==
    IF n > Len(kws) THEN mask_
    ELSE LET hit == str_contains(descriptions_, re_escape(kws[n]))
         IN all_loop([i \in 1..Len(mask_) |-> mask_[i] /\ hit[i]], descriptions_, kws, n + 1)

compute_mask(df, col, kws, mode) ==
    LET descriptions_ == astype_str(Column(df, col))
    IN IF mode = ANY
       THEN str_contains(descriptions_, any_pattern(kws))
       ELSE all_loop([i \in 1..Len(df.rows) |-> TRUE], descriptions_, kws, 1)

\* ------------------------------------------------------------ the script
VARIABLES
    uploaded_files, \* the file uploader's files, in upload order
    errors,         \* the names of the files st.error reported, in order
    dfs,            \* the tables read, in order
    combined_df,    \* pd.concat(dfs, ignore_index=True)
    columns,        \* list(combined_df.columns), or detect_column's first argument
    candidates,     \* the second argument of the latest detect_column call
    detected,       \* the result of the latest detect_column call
    id_index,       \* the index given to the ID selectbox (-1: not reached)
    desc_index,     \* the index given to the description selectbox (-1: not reached)
    id_col,         \* the ID selectbox's value (None: not rendered)
    desc_col,       \* the description selectbox's value (None: not rendered)
    retain_cols,    \* the multiselect's value
    preview,        \* the table shown as the preview
    keyword_text,   \* the text input's value
    match_mode,     \* the radio's value ("": not rendered)
    button,         \* st.button("Filter Stories") in this run
    keywords,       \* the parsed keywords
    mask,           \* the row mask
    filtered,       \* the result table (also what is exported)
    warnings,       \* the st.warning messages of this run
    halted          \* where this run of the script ended

vars == <<uploaded_files, errors, dfs, combined_df, columns, candidates, detected,
          id_index, desc_index, id_col, desc_col, retain_cols, preview, keyword_text,
          match_mode, button, keywords, mask, filtered, warnings, halted>>

\* The candidate aliases of the two detect_column calls.
IdCandidates == <<<<"u", "s", "e", "r", " ", "s", "t", "o", "r", "y", " ", "i", "d">>, <<"i", "d">>, <<"s", "t", "o", "r", "y", " ", "i", "d">>>>

DescCandidates == <<<<"d", "e", "s", "c", "r", "i", "p", "t", "i", "o", "n">>, <<"u", "s", "e", "r", " ", "s", "t", "o", "r", "y", " ", "d", "e", "s", "c", "r", "i", "p", "t", "i", "o", "n">>, <<"d", "e", "s", "c">>>>

\* value="security, masking, privacy"
DefaultKeywordText == <<"s", "e", "c", "u", "r", "i", "t", "y", ",", " ", "m", "a", "s", "k", "i", "n", "g", ",", " ", "p", "r", "i", "v", "a", "c", "y">>

\* combined_df[retain_cols].head(10)
PreviewRows == 10

WarnRetain == "Please select at least one column to retain."
WarnKeywordText == "Please enter at least one keyword."
WarnNoKeywords == "No valid keywords parsed."

EmptyFrame == DataFrame(<< >>, << >>)

\* What a run has shown when it has rendered nothing but the uploader.
Blank(files) ==
    [uploaded_files |-> files, errors |-> << >>, dfs |-> << >>,
     combined_df |-> EmptyFrame, columns |-> << >>, candidates |-> << >>,
     detected |-> None, id_index |-> -1, desc_index |-> -1, id_col |-> None,
     desc_col |-> None, retain_cols |-> << >>, preview |-> EmptyFrame,
     keyword_text |-> << >>, match_mode |-> "", button |-> FALSE, keywords |-> << >>,
     mask |-> << >>, filtered |-> EmptyFrame, warnings |-> << >>, halted |-> "info"]

\* The widget values a run starts from. A widget the previous run did not render
\* holds no value and returns its default: id_col = None for the ID selectbox,
\* desc_col = None for the description selectbox and the multiselect (rendered
\* together), match_mode = "" for the text input and the radio.
Fresh == [id_col |-> None, desc_col |-> None, retain_cols |-> << >>,
          keyword_text |-> << >>, match_mode |-> "", button |-> FALSE]

RECURSIVE read_files_abort(_, _)
\* The upload loop with the try around the whole loop: the first file that
\* cannot be read ends it.
read_files_abort(files, acc) ==
    IF files = << >> THEN acc
    ELSE IF files[1].readable
         THEN read_files_abort(Tail(files), [acc EXCEPT !.dfs = Append(@, files[1].sheet)])
         ELSE [acc EXCEPT !.errors = Append(@, files[1].name)]

RECURSIVE read_files(_, _)
\* The upload loop: a file whose try body raises is reported and skipped.
\* Returns the tables read and the names reported, each in upload order.
read_files(files, acc) ==
    IF files = << >> THEN acc
    ELSE read_files(Tail(files),
            IF files[1].readable
            THEN [acc EXCEPT !.dfs = Append(@, files[1].sheet)]
            ELSE [acc EXCEPT !.errors = Append(@, files[1].name)])

\* index=columns.index(detect_column(columns, cands)) if detect_column(columns, cands) else fallback
default_index(cols, cands, fallback) ==
    IF detect_column(cols, cands) # None
    THEN list_index(cols, detect_column(cols, cands)[1])
    ELSE fallback

\* st.selectbox raises when index is no position of options.
selectbox_ok(options, index) == 0 <= index /\ index < Len(options)

\* The value of a one-element set: Only({f(x) : x \in {e}}) is f(e) with e
\* computed once, as a local variable is.
Only(S) == CHOOSE r \in S : TRUE

\* The button's branch without the "if not keywords" guard.
FilterWith_unguarded(b, kws) ==
    Only({[b EXCEPT !.keywords = kws, !.mask = m,
                    !.filtered = df_loc(b.combined_df, m, b.retain_cols),
                    !.halted = "results"] :
          m \in {compute_mask(b.combined_df, b.desc_col, kws, b.match_mode)}})

\* The body of the button's branch once the keywords are parsed.
FilterWith(b, kws) ==
    IF kws = << >>
    THEN [b EXCEPT !.warnings = Append(@, WarnNoKeywords), !.halted = "stop_no_keywords"]
    ELSE Only({[b EXCEPT !.keywords = kws, !.mask = m,
                         !.filtered = df_loc(b.combined_df, m, b.retain_cols),
                         !.halted = "results"] :
               m \in {compute_mask(b.combined_df, b.desc_col, kws, b.match_mode)}})

\* if st.button("Filter Stories"): ...
FilterStories(b) ==
    IF strip(b.keyword_text) = << >>
    THEN [b EXCEPT !.warnings = Append(@, WarnKeywordText), !.halted = "stop_keyword_text"]
    ELSE Only({FilterWith(b, kws) : kws \in {parse_keywords(b.keyword_text)}})

\* Step 4: the keyword input, the match mode and the button.
Step4(b, w) ==
    Only({IF b1.button THEN FilterStories(b1) ELSE [b1 EXCEPT !.halted = "rendered"] :
          b1 \in {[b EXCEPT !.keyword_text = IF w.match_mode = "" THEN DefaultKeywordText
                                             ELSE w.keyword_text,
                            !.match_mode = IF w.match_mode = "" THEN ANY ELSE w.match_mode,
                            !.button = w.button]}})

\* The preview: combined_df[retain_cols].head(10)
Preview(b) ==
    df_head(df_loc(b.combined_df, [i \in 1..Len(b.combined_df.rows) |-> TRUE],
                   b.retain_cols), PreviewRows)

\* Step 3 from the guard on.
Step3Guard(b, w) ==
    IF Len(b.retain_cols) = 0
    THEN [b EXCEPT !.warnings = Append(@, WarnRetain), !.halted = "stop_no_retain"]
    ELSE Only({Step4(b1, w) : b1 \in {[b EXCEPT !.preview = Preview(b)]}})

\* Step 3: the retained columns, their guard and the preview.
Step3(b, w) ==
    Only({Step3Guard(b1, w) :
          b1 \in {[b EXCEPT !.retain_cols = IF w.desc_col = None
                                            THEN <<b.id_col, b.desc_col>>
                                            ELSE w.retain_cols]}})

\* The description selectbox.
SelectDescription(b, w) ==
    IF ~selectbox_ok(b.columns, b.desc_index) THEN [b EXCEPT !.halted = "raise_desc_index"]
    ELSE Only({Step3(b1, w) :
               b1 \in {[b EXCEPT !.desc_col = IF w.desc_col = None
                                              THEN b.columns[b.desc_index + 1]
                                              ELSE w.desc_col]}})

\* The ID selectbox, then the description selectbox's index.
SelectIdentifier(b, w) ==
    IF ~selectbox_ok(b.columns, b.id_index) THEN [b EXCEPT !.halted = "raise_id_index"]
    ELSE Only({SelectDescription(b1, w) :
               b1 \in {[b EXCEPT !.id_col = IF w.id_col = None
                                            THEN b.columns[b.id_index + 1]
                                            ELSE w.id_col,
                                 !.desc_index = default_index(b.columns, DescCandidates, 1),
                                 !.candidates = DescCandidates,
                                 !.detected = detect_column(b.columns, DescCandidates)]}})

\* Step 2: the two column selectboxes.
Step2(b, w) ==
    Only({SelectIdentifier(b1, w) :
          b1 \in {[b EXCEPT !.columns = b.combined_df.columns,
                            !.id_index = default_index(b.combined_df.columns, IdCandidates, 0),
                            !.candidates = IdCandidates,
                            !.detected = detect_column(b.combined_df.columns, IdCandidates)]}})

\* The upload branch once the files are read.
Combine(b, w) ==
    IF b.dfs = << >> THEN [b EXCEPT !.halted = "stop_no_dfs"]
    ELSE Only({Step2(b1, w) : b1 \in {[b EXCEPT !.combined_df = pd_concat(b.dfs)]}})

\* One run of the script, top to bottom, with the widgets returning w.
Script(files, w) ==
    IF files = << >> THEN Blank(files)
    ELSE Only({Combine([Blank(files) EXCEPT !.dfs = rd.dfs, !.errors = rd.errors], w) :
               rd \in {read_files(files, [dfs |-> << >>, errors |-> << >>])}})

\* The page becomes what the run r rendered.
Shows(r) ==
    /\ uploaded_files' = r.uploaded_files
    /\ errors' = r.errors
    /\ dfs' = r.dfs
    /\ combined_df' = r.combined_df
    /\ columns' = r.columns
    /\ candidates' = r.candidates
    /\ detected' = r.detected
    /\ id_index' = r.id_index
    /\ desc_index' = r.desc_index
    /\ id_col' = r.id_col
    /\ desc_col' = r.desc_col
    /\ retain_cols' = r.retain_cols
    /\ preview' = r.preview
    /\ keyword_text' = r.keyword_text
    /\ match_mode' = r.match_mode
    /\ button' = r.button
    /\ keywords' = r.keywords
    /\ mask' = r.mask
    /\ filtered' = r.filtered
    /\ warnings' = r.warnings
    /\ halted' = r.halted

\* The widget values the page holds now; the button is not held.
Widgets ==
    [id_col |-> id_col, desc_col |-> desc_col, retain_cols |-> retain_cols,
     keyword_text |-> keyword_text, match_mode |-> match_mode, button |-> FALSE]

\* ---------------------------------------------------------------- inputs
s_user_story_id == <<"U", "s", "e", "r", " ", "S", "t", "o", "r", "y", " ", "I", "D">>
s_description == <<"D", "e", "s", "c", "r", "i", "p", "t", "i", "o", "n">>
s_notes == <<"N", "o", "t", "e", "s">>

\* The workbooks a user may upload. c.xls cannot be read.
FileA ==
    [name |-> "a.xlsx", readable |-> TRUE,
     sheet |-> DataFrame(<<s_user_story_id, s_description>>,
                         << <<Str(<<"U", "S", "1">>), Str(<<"A", "d", "d", " ", "M", "a", "s", "k", "i", "n", "g">>)>>,
                            <<Str(<<"U", "S", "2">>), NaN>> >>)]

FileC ==
    [name |-> "c.xls", readable |-> FALSE,
     sheet |-> DataFrame(<<s_user_story_id, s_description>>,
                         << <<Str(<<"U", "S", "3">>), Str(<<"P", "r", "i", "v", "a", "c", "y", " ", "a", ".", "b">>)>> >>)]

FileD ==
    [name |-> "d.xlsx", readable |-> TRUE,
     sheet |-> DataFrame(<<s_notes>>, << <<Str(<<"a", "x", "b">>)>> >>)]

Files == {FileA, FileC, FileD}

\* The texts a user may type into the keyword input.
KeywordTexts ==
    {<< >>, <<" ">>, <<" ", ",", " ">>, <<"x", ",", " ", "u", "s", "1">>, DefaultKeywordText}

Modes == {ANY, ALL}

\* --------------------------------------------------------------- actions
\* The page is what the run r rendered.
Is(r) ==
    /\ uploaded_files = r.uploaded_files
    /\ errors = r.errors
    /\ dfs = r.dfs
    /\ combined_df = r.combined_df
    /\ columns = r.columns
    /\ candidates = r.candidates
    /\ detected = r.detected
    /\ id_index = r.id_index
    /\ desc_index = r.desc_index
    /\ id_col = r.id_col
    /\ desc_col = r.desc_col
    /\ retain_cols = r.retain_cols
    /\ preview = r.preview
    /\ keyword_text = r.keyword_text
    /\ match_mode = r.match_mode
    /\ button = r.button
    /\ keywords = r.keywords
    /\ mask = r.mask
    /\ filtered = r.filtered
    /\ warnings = r.warnings
    /\ halted = r.halted

\* A rerun of the script with the widgets returning w: the page becomes what it
\* rendered.
Run(files, w) == \E r \in {Script(files, w)} : Shows(r)

\* The first run: nothing uploaded.
Init == Is(Script(<< >>, Fresh))

\* The user adds a workbook to the uploader; the widgets below start afresh.
AddFile(f) ==
    /\ Len(uploaded_files) < MaxFiles
    /\ f \notin Range(uploaded_files)
    /\ Run(Append(uploaded_files, f), Fresh)

\* The user removes the i-th workbook from the uploader.
RemoveFile(i) ==
    /\ i \in 1..Len(uploaded_files)
    /\ Run(SubSeq(uploaded_files, 1, i - 1)
                    \o SubSeq(uploaded_files, i + 1, Len(uploaded_files)), Fresh)

\* The user picks another ID column.
SelectId(c) ==
    /\ id_col # None
    /\ c \in Range(columns) /\ c # id_col
    /\ Run(uploaded_files, [Widgets EXCEPT !.id_col = c])

\* The user picks another description column.
SelectDesc(c) ==
    /\ desc_col # None
    /\ c \in Range(columns) /\ c # desc_col
    /\ Run(uploaded_files, [Widgets EXCEPT !.desc_col = c])

\* The user adds a column to the multiselect.
AddRetain(c) ==
    /\ desc_col # None
    /\ c \in Range(columns) /\ c \notin Range(retain_cols)
    /\ Run(uploaded_files, [Widgets EXCEPT !.retain_cols = Append(@, c)])

\* The user removes the i-th column from the multiselect.
RemoveRetain(i) ==
    /\ desc_col # None
    /\ i \in 1..Len(retain_cols)
    /\ Run(uploaded_files,
                    [Widgets EXCEPT !.retain_cols = SubSeq(@, 1, i - 1)
                                                    \o SubSeq(@, i + 1, Len(@))])

\* The user edits the keyword text.
EnterKeywords(t) ==
    /\ match_mode # ""
    /\ t # keyword_text
    /\ Run(uploaded_files, [Widgets EXCEPT !.keyword_text = t])

\* The user picks the other match mode.
ChooseMode(m) ==
    /\ match_mode # ""
    /\ m # match_mode
    /\ Run(uploaded_files, [Widgets EXCEPT !.match_mode = m])

\* The user presses "Filter Stories".
PressFilter ==
    /\ match_mode # ""
    /\ Run(uploaded_files, [Widgets EXCEPT !.button = TRUE])

Next ==
    \/ \E f \in Files : AddFile(f)
    \/ \E i \in 1..MaxFiles : RemoveFile(i)
    \/ \E c \in Range(columns) : SelectId(c)
    \/ \E c \in Range(columns) : SelectDesc(c)
    \/ \E c \in Range(columns) : AddRetain(c)
    \/ \E i \in 1..Len(retain_cols) : RemoveRetain(i)
    \/ \E t \in KeywordTexts : EnterKeywords(t)
    \/ \E m \in Modes : ChooseMode(m)
    \/ PressFilter

Spec == Init /\ [][Next]_vars

\* ------------------------------------------ detect_column on its own
\* Column names and candidate aliases detect_column is called with.
ColumnNames == {<<"I", "D">>, <<"i", "d">>, <<"D", "e", "s", "c">>, <<"N", "o", "t", "e", "s">>}

CandidateNames == {<<"i", "d">>, <<"I", "D">>, <<"d", "e", "s", "c">>}

\* What the page shows now.
Page ==
    [uploaded_files |-> uploaded_files, errors |-> errors, dfs |-> dfs,
     combined_df |-> combined_df, columns |-> columns, candidates |-> candidates,
     detected |-> detected, id_index |-> id_index, desc_index |-> desc_index,
     id_col |-> id_col, desc_col |-> desc_col, retain_cols |-> retain_cols,
     preview |-> preview, keyword_text |-> keyword_text, match_mode |-> match_mode,
     button |-> button, keywords |-> keywords, mask |-> mask, filtered |-> filtered,
     warnings |-> warnings, halted |-> halted]

\* A call of detect_column is about to be made with any column list (names
\* distinct, as DataFrame columns read from a sheet are) and any candidate list.
InitDetect ==
    \E cols \in {c \in SeqsOf(ColumnNames, 0, MaxCols) : IsInjective(c)} :
      \E cands \in SeqsOf(CandidateNames, 0, MaxCands) :
        Is([Blank(<< >>) EXCEPT !.columns = cols, !.candidates = cands, !.halted = "call"])

\* detect_column(columns, candidates) returns.
DetectCall ==
    /\ halted = "call"
    /\ Shows([Page EXCEPT !.detected = detect_column(columns, candidates),
                          !.halted = "return"])

NextDetect == DetectCall

SpecDetect == InitDetect /\ [][NextDetect]_vars

\* ------------------------------------------------- pd.concat on its own
\* Tables read from sheets: different column sets, a shared column in
\* different places, and a sheet with columns and no rows.
TableUniverse ==
    {DataFrame(<<<<"I", "D">>, <<"D", "e", "s", "c">>>>, << <<Str(<<"N", "b">>), NaN>>, <<Str(<<"a", ".", "b">>), Str(<<"A", "x", "B">>)>> >>),
     DataFrame(<<<<"D", "e", "s", "c">>, <<"N", "o", "t", "e", "s">>>>, << <<Str(<<"a", ".", "b">>), Str(<<"N", "b">>)>> >>),
     DataFrame(<<<<"N", "o", "t", "e", "s">>>>, << <<Str(<<"A", "x", "B">>)>> >>),
     DataFrame(<<<<"i", "d">>, <<"I", "D">>>>, << >>),
     DataFrame(<<<<"D", "e", "s", "c">>, <<"I", "D">>>>, << <<NaN, Str(<<"N", "b">>)>> >>)}

\* The upload loop has read some tables and pd.concat is about to be called.
InitCombine ==
    \E tables \in SeqsOf(TableUniverse, 1, MaxTables) :
        Is([Blank(<< >>) EXCEPT !.dfs = tables, !.halted = "concat"])

\* combined_df = pd.concat(dfs, ignore_index=True)
ConcatCall ==
    /\ halted = "concat"
    /\ Shows([Page EXCEPT !.combined_df = pd_concat(dfs), !.halted = "combined"])

NextCombine == ConcatCall

SpecCombine == InitCombine /\ [][NextCombine]_vars

\* ------------------------------------------- the keyword filter on its own
\* Description cells and keywords the filter is run on.
CellUniverse == {NaN, Str(<<"a", ".", "b">>), Str(<<"A", "x", "B">>), Str(<<"N", "b">>)}

KeywordUniverse == {<<"a", ".", "b">>, <<"B">>, <<"a", "n">>, <<"x">>}

\* A workbook whose sheet is one Description column holding the cells.
DescriptionFile(cells) ==
    [name |-> "stories.xlsx", readable |-> TRUE,
     sheet |-> DataFrame(<<s_description>>, [i \in 1..Len(cells) |-> <<cells[i]>>])]

\* The page after such a workbook is uploaded and the keywords and the mode are
\* entered, before the button is pressed.
InitFilter ==
    \E cells \in SeqsOf(CellUniverse, 0, MaxRows) :
      \E kws \in SeqsOf(KeywordUniverse, 1, MaxKeywords) :
        \E m \in Modes :
          Is(Script(<<DescriptionFile(cells)>>,
                    [id_col |-> s_description, desc_col |-> s_description,
                     retain_cols |-> <<s_description>>,
                     keyword_text |-> join(<<",", " ">>, kws),
                     match_mode |-> m, button |-> FALSE]))

NextFilter ==
    \/ PressFilter
    \/ \E m \in Modes : ChooseMode(m)

SpecFilter == InitFilter /\ [][NextFilter]_vars

\* ----------------------------------------------------------------- claims
\* a and b are equal when compared case-insensitively.
SameIgnoringCase(a, b) == str_lower(a) = str_lower(b)

\* The candidates (by position) that match some column case-insensitively.
MatchingCandidates ==
    {n \in 1..Len(candidates) : \E c \in Range(columns) : SameIgnoringCase(candidates[n], c)}

Min(S) == CHOOSE x \in S : \A y \in S : x <= y

\* C1: detect_column returns a member of the column list, in its original
\* casing, if and only if some candidate equals some column when compared
\* case-insensitively; otherwise it returns None.
C1_DetectIffMatch ==
    halted = "return" =>
        /\ (detected # None) <=> (MatchingCandidates # {})
        /\ detected # None => detected[1] \in Range(columns)

\* C9: when several candidates match, the column matched by the earliest
\* matching candidate is returned, and of several columns matching that
\* candidate the first in column order.
C9_EarliestCandidateWins ==
    (halted = "return" /\ MatchingCandidates # {}) =>
        LET n0 == Min(MatchingCandidates)
            i0 == Min({i \in 1..Len(columns) : SameIgnoringCase(candidates[n0], columns[i])})
        IN detected = <<columns[i0]>>

\* The keyword k occurs in the text t as a literal, case-insensitive substring.
Occurs(k, t) ==
    \E i \in 0..(Len(t) - Len(k)) :
      \A j \in 1..Len(k) : char_lower(t[i + j]) = char_lower(k[j])

\* The text of the description cell of row i (the cell coerced to text).
CellText(i) == py_str(Column(combined_df, desc_col)[i])

\* C2: the mask has one boolean per row, in row order; in ANY mode a row's
\* boolean is true iff at least one keyword occurs in the cell's text as a
\* literal case-insensitive substring, in ALL mode iff every keyword does.
C2_MaskIsSubstringMatch ==
    halted = "results" =>
        /\ keywords # << >>
        /\ Len(mask) = Len(combined_df.rows)
        /\ \A i \in 1..Len(mask) :
             mask[i] <=> IF match_mode = ANY
                         THEN \E n \in 1..Len(keywords) : Occurs(keywords[n], CellText(i))
                         ELSE \A n \in 1..Len(keywords) : Occurs(keywords[n], CellText(i))

\* A filter in which a keyword with a regex metacharacter met a cell that
\* matches it only as a regular expression, and the row was not selected,
\* while another row was.
C2_Witness ==
    /\ halted = "results"
    /\ <<"a", ".", "b">> \in Range(keywords)
    /\ \E i, j \in 1..Len(mask) :
         /\ CellText(i) = <<"A", "x", "B">> /\ ~mask[i]
         /\ mask[j]

\* C3: a row whose description cell is missing never matches, in either mode
\* and for every keyword set.
C3_MissingNeverMatches ==
    halted = "results" =>
        \A i \in 1..Len(mask) : Column(combined_df, desc_col)[i] = NaN => ~mask[i]

\* The number of rows a mask selects.
Matched(m) == Cardinality({i \in 1..Len(m) : m[i]})

\* The mask the filter computes for the present keywords and one more.
MaskWith(k) == compute_mask(combined_df, desc_col, Append(keywords, k), match_mode)

\* C8: adding a keyword never decreases the number of matched rows in ANY
\* mode and never increases it in ALL mode.
C8_KeywordMonotonicity ==
    halted = "results" =>
        \A k \in KeywordUniverse :
            /\ match_mode = ANY => Matched(MaskWith(k)) >= Matched(mask)
            /\ match_mode = ALL => Matched(MaskWith(k)) <= Matched(mask)

\* An ANY filter that one more keyword would make match strictly more rows.
C8_Witness ==
    /\ halted = "results"
    /\ match_mode = ANY
    /\ Matched(mask) > 0
    /\ \E k \in KeywordUniverse : Matched(MaskWith(k)) > Matched(mask)

\* The keyword text holds at least one non-empty trimmed keyword: some
\* character of it is neither a comma nor white space.
HasKeyword(text) == \E i \in 1..Len(text) : text[i] \notin ({","} \cup Whitespace)

\* C4: a result table is produced only if a file was parsed, the retained
\* columns are not empty, the button was pressed and the text holds a keyword;
\* with no retained column the run warns and halts before the preview and the
\* filter; with no keyword it warns and halts before any mask is computed.
C4_ResultOnlyIfGuardsHold ==
    /\ (halted = "results" \/ filtered # EmptyFrame \/ mask # << >>) =>
           /\ dfs # << >>
           /\ retain_cols # << >>
           /\ button
           /\ HasKeyword(keyword_text)
    /\ (desc_col # None /\ retain_cols = << >>) =>
           /\ WarnRetain \in Range(warnings)
           /\ halted = "stop_no_retain"
           /\ preview = EmptyFrame /\ match_mode = "" /\ ~button
           /\ mask = << >> /\ filtered = EmptyFrame
    /\ (button /\ ~HasKeyword(keyword_text)) =>
           /\ warnings # << >>
           /\ halted \in {"stop_keyword_text", "stop_no_keywords"}
           /\ mask = << >> /\ filtered = EmptyFrame

\* The button pressed on a text of commas and blanks only.
C4_Witness ==
    /\ button
    /\ keyword_text = <<" ", ",", " ">>
    /\ dfs # << >> /\ retain_cols # << >>
    /\ warnings = <<WarnNoKeywords>>

\* The uploaded files that were read, and those that were not, in upload order.
ReadableFiles == SelectSeq(uploaded_files, LAMBDA f : f.readable)

UnreadableFiles == SelectSeq(uploaded_files, LAMBDA f : ~f.readable)

\* C5: each failure is reported for its file and the rest are still processed:
\* the tables combined are those of the files that parsed, in upload order, and
\* the run halts before column selection only when no file parsed.
C5_FailuresArePerFile ==
    /\ dfs = [i \in 1..Len(ReadableFiles) |-> ReadableFiles[i].sheet]
    /\ errors = [i \in 1..Len(UnreadableFiles) |-> UnreadableFiles[i].name]
    /\ (id_index = -1) <=> (ReadableFiles = << >>)
    /\ (halted = "stop_no_dfs") <=> (uploaded_files # << >> /\ ReadableFiles = << >>)

\* An unreadable file uploaded before a readable one, whose table is combined.
C5_Witness ==
    /\ Len(uploaded_files) = 2
    /\ ~uploaded_files[1].readable
    /\ dfs = <<uploaded_files[2].sheet>>
    /\ errors = <<uploaded_files[1].name>>
    /\ combined_df.rows # << >>
    /\ id_index # -1

RECURSIVE RowsBefore(_)
\* The number of rows of the tables before table n.
RowsBefore(n) == IF n <= 1 THEN 0 ELSE RowsBefore(n - 1) + Len(dfs[n - 1].rows)

\* The position of x in the sequence xs.
Pos(xs, x) == CHOOSE i \in 1..Len(xs) : xs[i] = x

\* The first table that has column c, and c's place in it.
FirstTable(c) == Min({n \in 1..Len(dfs) : c \in Range(dfs[n].columns)})

\* C6: the combined table has the sum of the tables' row counts; its rows are
\* the tables' rows in input order, each table's rows contiguous and in order;
\* its columns are the union of the tables' columns in order of first
\* appearance; a row of a table lacking a column has a missing value there.
C6_CombineIsOrderedUnion ==
    (dfs # << >> /\ halted # "concat") =>
        LET cc == combined_df.columns
        IN /\ Len(combined_df.rows) = RowsBefore(Len(dfs) + 1)
           /\ IsInjective(cc)
           /\ Range(cc) = UNION {Range(dfs[n].columns) : n \in 1..Len(dfs)}
           /\ \A i, j \in 1..Len(cc) :
                i < j => \/ FirstTable(cc[i]) < FirstTable(cc[j])
                         \/ /\ FirstTable(cc[i]) = FirstTable(cc[j])
                            /\ Pos(dfs[FirstTable(cc[i])].columns, cc[i])
                                 < Pos(dfs[FirstTable(cc[j])].columns, cc[j])
           /\ \A n \in 1..Len(dfs) : \A r \in 1..Len(dfs[n].rows) : \A j \in 1..Len(cc) :
                combined_df.rows[RowsBefore(n) + r][j] =
                    IF cc[j] \in Range(dfs[n].columns)
                    THEN dfs[n].rows[r][Pos(dfs[n].columns, cc[j])]
                    ELSE NaN

\* Two tables with different columns combined: the second table's row has a
\* missing value in a column only the first table has.
C6_Witness ==
    /\ halted = "combined"
    /\ Len(dfs) = 2
    /\ Len(dfs[1].rows) = 2 /\ Len(dfs[2].rows) = 1
    /\ Len(combined_df.columns) = 3 /\ Len(combined_df.rows) = 3
    /\ combined_df.rows[3][1] = NaN
    /\ combined_df.rows[3][2] # NaN

\* The rows of the combined table whose mask value is true.
Selected == {i \in 1..Len(mask) : mask[i]}

\* The r-th selected row, counting in the combined table's order.
NthSelected(r) == CHOOSE i \in Selected : Cardinality({j \in Selected : j <= i}) = r

\* The result holds the selected rows in their order, cut to the retained
\* columns in the retained order.
FilteredIsProjection ==
    /\ filtered.columns = retain_cols
    /\ Len(filtered.rows) = Cardinality(Selected)
    /\ \A r \in 1..Len(filtered.rows) : \A j \in 1..Len(retain_cols) :
         filtered.rows[r][j] =
             combined_df.rows[NthSelected(r)][Pos(combined_df.columns, retain_cols[j])]

\* C7: the filtered result holds exactly the rows whose mask value is true, in
\* their original order, and exactly the retained columns, in the retained
\* order; the filter leaves the combined table as it was.
C7_ProjectionKeepsOrder ==
    [][halted' = "results" => (FilteredIsProjection' /\ combined_df' = combined_df)]_vars

\* A filter that kept some rows and dropped others, with the columns retained
\* in another order than the table's.
C7_Witness ==
    /\ halted = "results"
    /\ Selected # {} /\ Selected # 1..Len(mask)
    /\ Len(retain_cols) >= 2
    /\ Pos(combined_df.columns, retain_cols[1]) > Pos(combined_df.columns, retain_cols[2])
    /\ filtered.rows # << >>

\* C10: for a combined table with at least one column, the default index of
\* the ID selectbox and of the description selectbox is a position of the
\* column list.
C10_DefaultIndexValid ==
    (columns # << >> /\ halted # "call" /\ halted # "return") =>
        /\ 0 <= id_index /\ id_index < Len(columns)
        /\ desc_index # -1 => (0 <= desc_index /\ desc_index < Len(columns))

====
